---- MODULE Spec2Model ----
(***************************************************************************)
(* A model of the logrus hook for Application Insights (hook.go).          *)
(*                                                                         *)
(* The hook's fields (async, levels, ignoreFields, filters) are the state; *)
(* the telemetry client is the log of the events Track received.  The      *)
(* setters, the constructors and Fire (with fire, buildTrace and           *)
(* formatData) are translated from hook.go.  fmt.Sprintf("%v", v), the     *)
(* type switch of formatData and the logrus level names are modelled by    *)
(* what they do on a small universe of Go values.                          *)
(***************************************************************************)
EXTENDS Integers, Sequences, FiniteSets, TLC

VARIABLES
    async,          \* hook.async
    levels,         \* hook.levels
    ignoreFields,   \* hook.ignoreFields (the set of its keys)
    filters,        \* hook.filters (field name -> filter function)
    tracked,        \* hook.client: the calls whose event Track received, in order
    pending,        \* the entry the logger is about to hand to Fire
    caller,         \* the position of the (single) logging caller
    nfires,         \* number of Fire calls started
    units,          \* the asynchronous Fire calls: id -> call and goroutine
    last,           \* the most recent run of buildTrace, and what came of it
    returns,        \* id -> what Fire returned to the caller
    ctor,           \* the most recent constructor call and its result
    hist            \* what the hook was created with and its setters were passed

vars == <<async, levels, ignoreFields, filters, tracked, pending, caller,
          nfires, units, last, returns, ctor, hist>>

hookVars == <<async, levels, ignoreFields, filters>>

----------------------------------------------------------------------------
(* Bounds *)

\* Fire calls per behaviour of the dispatch specification.
MaxFires == 2

----------------------------------------------------------------------------
(* logrus levels and the remote severity scale *)

PanicLevel == 0
FatalLevel == 1
ErrorLevel == 2
WarnLevel == 3
InfoLevel == 4
DebugLevel == 5

AllLevels == {PanicLevel, FatalLevel, ErrorLevel, WarnLevel, InfoLevel, DebugLevel}

Information == 1
Warning == 2
Error == 3
Critical == 4

defaultLevels == <<PanicLevel, FatalLevel, ErrorLevel, WarnLevel, InfoLevel>>

levelMap ==
    (PanicLevel :> Critical) @@ (FatalLevel :> Critical) @@
    (ErrorLevel :> Error) @@ (WarnLevel :> Warning) @@ (InfoLevel :> Information)

\* levelMap[entry.Level]: a Go map lookup, the zero value on a miss.
\* A mutant of LookupLevel: a level missing from the table reads as Information.
LookupLevelOrInformation(l) == IF l \in DOMAIN levelMap THEN levelMap[l] ELSE Information

LookupLevel(l) == IF l \in DOMAIN levelMap THEN levelMap[l] ELSE 0

\* entry.Level.String()
LevelString(l) ==
    CASE l = PanicLevel -> "panic"
      [] l = FatalLevel -> "fatal"
      [] l = ErrorLevel -> "error"
      [] l = WarnLevel  -> "warning"
      [] l = InfoLevel  -> "info"
      [] l = DebugLevel -> "debug"
      [] OTHER          -> "unknown"

----------------------------------------------------------------------------
(* Go values held in entry.Data (interface{}) *)

\* The interfaces a dynamic type may implement.
Capabilities == {"Marshaler", "error", "Stringer", "Formatter"}

Nil == [kind |-> "nil", n |-> 0, s |-> "", caps |-> {}]
IntV(i) == [kind |-> "int", n |-> i, s |-> "", caps |-> {}]
StrV(str) == [kind |-> "string", n |-> 0, s |-> str, caps |-> {}]
\* A non-nil value of a struct type implementing exactly the interfaces caps.
Obj(c) == [kind |-> "obj", n |-> 0, s |-> "", caps |-> c]

Objects == {Obj(c) : c \in SUBSET Capabilities}

Values == {Nil, IntV(105), IntV(-7), StrV("apple"), StrV("field_message")} \cup Objects

\* What the methods of an object return.
ErrorText(v) == "this is a test error"
StringText(v) == "myStringer!"
FormatText(v) == "formatted!"
JSONText(v) == "{\"json\":true}"

Digit(d) ==
    CASE d = 0 -> "0" [] d = 1 -> "1" [] d = 2 -> "2" [] d = 3 -> "3"
      [] d = 4 -> "4" [] d = 5 -> "5" [] d = 6 -> "6" [] d = 7 -> "7"
      [] d = 8 -> "8" [] d = 9 -> "9"

\* A mutant of Digits: the digits come out least significant first.
RECURSIVE DigitsReversed(_)
DigitsReversed(i) ==
    IF i < 10 THEN Digit(i) ELSE Digit(i % 10) \o DigitsReversed(i \div 10)

RECURSIVE Digits(_)
Digits(i) == IF i < 10 THEN Digit(i) ELSE Digits(i \div 10) \o Digit(i % 10)

\* The decimal rendering of an int.
Itoa(i) == IF i < 0 THEN "-" \o Digits(-i) ELSE Digits(i)

\* A mutant of SprintfV: a json.Marshaler is rendered by MarshalJSON.
SprintfVMarshal(v) ==
    CASE v.kind = "nil"    -> "<nil>"
      [] v.kind = "int"    -> Itoa(v.n)
      [] v.kind = "string" -> v.s
      [] OTHER ->
            IF "Marshaler" \in v.caps THEN JSONText(v)
            ELSE IF "Formatter" \in v.caps THEN FormatText(v)
            ELSE IF "error" \in v.caps THEN ErrorText(v)
            ELSE IF "Stringer" \in v.caps THEN StringText(v)
            ELSE "{}"

\* fmt.Sprintf("%v", v): a Formatter formats itself, then Error(), then
\* String(), then the default rendering of the kind.
SprintfV(v) ==
    CASE v.kind = "nil"    -> "<nil>"
      [] v.kind = "int"    -> Itoa(v.n)
      [] v.kind = "string" -> v.s
      [] OTHER ->
            IF "Formatter" \in v.caps THEN FormatText(v)
            ELSE IF "error" \in v.caps THEN ErrorText(v)
            ELSE IF "Stringer" \in v.caps THEN StringText(v)
            ELSE "{}"

\* A mutant of formatData: the Stringer case is tried first.
formatDataStringerFirst(value) ==
    IF "Stringer" \in value.caps THEN StrV(StringText(value))
    ELSE IF "Marshaler" \in value.caps THEN value
    ELSE IF "error" \in value.caps THEN StrV(ErrorText(value))
    ELSE value

\* A mutant of formatData: the error case is tried first.
formatDataErrorFirst(value) ==
    IF "error" \in value.caps THEN StrV(ErrorText(value))
    ELSE IF "Marshaler" \in value.caps THEN value
    ELSE IF "Stringer" \in value.caps THEN StrV(StringText(value))
    ELSE value

\* formatData: the type switch, first matching case wins.
formatData(value) ==
    IF "Marshaler" \in value.caps THEN value
    ELSE IF "error" \in value.caps THEN StrV(ErrorText(value))
    ELSE IF "Stringer" \in value.caps THEN StrV(StringText(value))
    ELSE value

----------------------------------------------------------------------------
(* Filter functions registered with AddFilter *)

\* "nilfn" is the nil function value (TestAddFilter registers it); calling it
\* panics.  "redact" returns "REDACTED", "null" returns nil, "ident" returns
\* its argument.
FilterFns == {"nilfn", "redact", "null", "ident"}

FilterPanics(fn) == fn = "nilfn"

ApplyFilter(fn, v) ==
    CASE fn = "redact" -> StrV("REDACTED")
      [] fn = "null"   -> Nil
      [] OTHER         -> v

----------------------------------------------------------------------------
(* Entries *)

EmptyData == [k \in {} |-> Nil]

EntryTime == [unix |-> 1516882422]

\* entry.Time.String()
TimeString(t) ==
    IF t = EntryTime THEN "2018-01-25 12:13:42 +0000 UTC" ELSE "0001-01-01 00:00:00 +0000 UTC"

MkEntry(level, message, data) ==
    [Level |-> level, Message |-> message, Time |-> EntryTime, Data |-> data]

NoEntry == MkEntry(PanicLevel, "", EmptyData)

AppleData ==
    ("name" :> StrV("apple")) @@ ("price" :> IntV(105)) @@ ("color" :> StrV("red"))

\* The field mappings of TestGetData.
TestData ==
    { EmptyData,
      "message" :> StrV("field_message"),
      AppleData,
      AppleData @@ ("message" :> StrV("field_message")) }

CoreValues == {Nil, IntV(105), StrV("field_message"), Obj({"Marshaler", "Stringer"})}

\* Field names that rules are registered for.
RuleNames == {"message", "price", "source_level"}

WideData ==
    TestData
    \cup { "price" :> v : v \in Values }
    \cup { "message" :> v : v \in CoreValues }
    \cup { "source_level" :> v : v \in CoreValues }
    \cup { ("message" :> v) @@ ("price" :> w) : v \in CoreValues, w \in CoreValues }

BuildEntries ==
    { MkEntry(ErrorLevel, "entry_message", d) : d \in WideData }
    \cup { MkEntry(l, "entry_message", d) : l \in AllLevels, d \in {EmptyData, AppleData} }

----------------------------------------------------------------------------
(* buildTrace *)

NoTrace == [Message |-> "", Severity |-> 0, Properties |-> [k \in {} |-> ""]]

\* A mutant of WithMessage: the message is never added.
WithMessageNever(entry) == entry.Data

\* A mutant of WithMessage: the message is stored whether present or not.
WithMessageOverwrite(entry) ==
    [k \in DOMAIN entry.Data \cup {"message"} |->
        IF k = "message" THEN StrV(entry.Message) ELSE entry.Data[k]]

\* entry.Data after line 147-149: "message" is added when absent.
WithMessage(entry) ==
    IF "message" \in DOMAIN entry.Data
    THEN entry.Data
    ELSE entry.Data @@ ("message" :> StrV(entry.Message))

\* A mutant of FieldText: the default formatter also runs on a filter's result.
FieldTextFormatAfter(k, v, flt) ==
    SprintfV(formatData(IF k \in DOMAIN flt THEN ApplyFilter(flt[k], v) ELSE v))

\* The value stored for field k (lines 160-165).
FieldText(k, v, flt) ==
    SprintfV(IF k \in DOMAIN flt THEN ApplyFilter(flt[k], v) ELSE formatData(v))

\* A mutant of Kept: no field is skipped.
KeptAll(data, ign) == DOMAIN data

\* The fields the loop of lines 156-167 does not skip.
Kept(data, ign) == DOMAIN data \ ign

\* A mutant of Properties: a field with a filter is stored even when ignored.
PropertiesFilterFirst(entry, data, ign, flt) ==
    [k \in Kept(data, ign \ DOMAIN flt) \cup {"source_level", "source_timestamp"} |->
        CASE k = "source_level"     -> LevelString(entry.Level)
          [] k = "source_timestamp" -> TimeString(entry.Time)
          [] OTHER                  -> FieldText(k, data[k], flt)]

\* trace.Properties when the function returns (lines 156-169).
Properties(entry, data, ign, flt) ==
    [k \in Kept(data, ign) \cup {"source_level", "source_timestamp"} |->
        CASE k = "source_level"     -> LevelString(entry.Level)
          [] k = "source_timestamp" -> TimeString(entry.Time)
          [] OTHER                  -> FieldText(k, data[k], flt)]

\* buildTrace(entry) under the hook's ignoreFields ign and filters flt.
\* traceOK: whether appinsights.NewTraceTelemetry returned a trace (the code
\* tests it for nil).  The loop visits the fields in any order; a nil filter
\* on a visited field panics, whatever the order.
\* outcome: "ok" (trace, nil), "err" (nil, error), "panic".
\* applied: the fields fn(v) is called for; formatted: what formatData(v)
\* returned, by field (on a panic: the calls made if the loop got that far).
buildTrace(entry, ign, flt, traceOK) ==
    LET data == WithMessage(entry)
        kept == Kept(data, ign)
        outcome ==
            IF ~traceOK THEN "err"
            ELSE IF \E k \in kept : k \in DOMAIN flt /\ FilterPanics(flt[k])
            THEN "panic"
            ELSE "ok"
    IN  [ outcome   |-> outcome,
          entry     |-> [entry EXCEPT !.Data = data],
          trace     |-> IF outcome = "ok"
                        THEN [ Message    |-> entry.Message,
                               Severity   |-> LookupLevel(entry.Level),
                               Properties |-> Properties(entry, data, ign, flt) ]
                        ELSE NoTrace,
          applied   |-> IF outcome = "err" THEN {} ELSE kept \cap DOMAIN flt,
          formatted |-> [k \in (IF outcome = "err" THEN {} ELSE kept \ DOMAIN flt) |->
                            formatData(data[k])] ]

----------------------------------------------------------------------------
(* Errors *)

NoError == "nil"
\* errors.New(fmt.Sprintf("Could not create telemetry trace with entry %+v", entry))
BuildError == "Could not create telemetry trace with entry"
\* errors.New(fmt.Sprintf("An error occurred: %s", r))
RecoveredError == "An error occurred: invalid memory address or nil pointer dereference"

----------------------------------------------------------------------------
(* State after construction *)

NoCall ==
    [ id |-> 0, mode |-> "none", outcome |-> "none", entry0 |-> NoEntry,
      entry |-> NoEntry, ign |-> {}, flt |-> [k \in {} |-> ""],
      trace |-> NoTrace, applied |-> {}, formatted |-> [k \in {} |-> Nil],
      ign0 |-> {}, flt0 |-> [k \in {} |-> ""], raced |-> FALSE ]

\* The zero appinsights.TelemetryConfiguration.
NoConf ==
    [InstrumentationKey |-> "", EndpointUrl |-> "", MaxBatchSize |-> 0, MaxBatchInterval |-> 0]

NoCtor ==
    [ fn |-> "none", name |-> "", iKey |-> "", conf |-> <<>>, outcome |-> "none",
      err |-> NoError, made |-> FALSE, client |-> NoConf ]

\* The hook New and NewWithAppInsightsConfig return: async is the zero value.
InitHook ==
    /\ async = FALSE
    /\ levels = defaultLevels
    /\ ignoreFields = {}
    /\ filters = [k \in {} |-> ""]

\* Nothing passed to the setters of a hook created with the levels ls.
NoHist(ls) == [created |-> ls, setLevels |-> <<>>, ignored |-> {}, filtered |-> {}]

InitRest ==
    /\ hist = NoHist(levels)
    /\ tracked = <<>>
    /\ caller = "idle"
    /\ nfires = 0
    /\ units = [i \in {} |-> 0]
    /\ last = NoCall
    /\ returns = [i \in {} |-> ""]
    /\ ctor = NoCtor

----------------------------------------------------------------------------
(* Constructors *)

\* errors.New("InstrumentationKey is required and missing from configuration")
MissingKeyError == "InstrumentationKey is required and missing from configuration"

\* appinsights.NewTelemetryConfiguration(iKey): the client's own defaults
\* (durations in seconds).
NewTelemetryConfiguration(iKey) ==
    [ InstrumentationKey |-> iKey,
      EndpointUrl        |-> "https://dc.services.visualstudio.com/v2/track",
      MaxBatchSize       |-> 1024,
      MaxBatchInterval   |-> 10 ]

\* A mutant of NewResult: the key is not validated.
NewResultUnchecked(iKey) ==
    [ outcome |-> "hook", err |-> NoError, made |-> TRUE,
      client |-> [NewTelemetryConfiguration(iKey) EXCEPT
                     !.MaxBatchSize = 8192, !.MaxBatchInterval = 2] ]

\* New(iKey): what it returns, and the configuration its client is made from.
NewResult(iKey) ==
    IF iKey = ""
    THEN [outcome |-> "error", err |-> MissingKeyError, made |-> FALSE, client |-> NoConf]
    ELSE [ outcome |-> "hook", err |-> NoError, made |-> TRUE,
           client |-> [NewTelemetryConfiguration(iKey) EXCEPT
                          !.MaxBatchSize = 8192, !.MaxBatchInterval = 2] ]

\* NewWithAppInsightsConfig(conf); conf is <<>> for a nil pointer, which
\* conf.InstrumentationKey dereferences.
NewWithAppInsightsConfigResult(conf) ==
    IF conf = <<>>
    THEN [outcome |-> "panic", err |-> NoError, made |-> FALSE, client |-> NoConf]
    ELSE IF conf[1].InstrumentationKey = ""
    THEN [outcome |-> "error", err |-> MissingKeyError, made |-> FALSE, client |-> NoConf]
    ELSE LET d == NewTelemetryConfiguration(conf[1].InstrumentationKey)
         IN  [ outcome |-> "hook", err |-> NoError, made |-> TRUE,
               client |->
                 [ InstrumentationKey |-> d.InstrumentationKey,
                   MaxBatchSize |-> IF conf[1].MaxBatchSize # 0
                                    THEN conf[1].MaxBatchSize ELSE d.MaxBatchSize,
                   MaxBatchInterval |-> IF conf[1].MaxBatchInterval # 0
                                        THEN conf[1].MaxBatchInterval ELSE d.MaxBatchInterval,
                   EndpointUrl |-> IF conf[1].EndpointUrl # ""
                                   THEN conf[1].EndpointUrl ELSE d.EndpointUrl ] ]

\* The caller now holds the hook just returned, if one was returned.
Constructed(r) ==
    /\ caller = "idle"
    /\ IF r.made
       THEN /\ async' = FALSE
            /\ levels' = defaultLevels
            /\ ignoreFields' = {}
            /\ filters' = [k \in {} |-> ""]
            /\ hist' = NoHist(defaultLevels)
       ELSE UNCHANGED <<async, levels, ignoreFields, filters, hist>>
    /\ UNCHANGED <<tracked, pending, caller, nfires, units, last, returns>>

\* New(iKey).  clientName is the application name the caller has in mind (the
\* README passes one); New has no parameter for it.
New(iKey, clientName) ==
    LET r == NewResult(iKey)
    IN  /\ Constructed(r)
        /\ ctor' = [ fn |-> "New", name |-> clientName, iKey |-> iKey, conf |-> <<>>,
                     outcome |-> r.outcome, err |-> r.err, made |-> r.made,
                     client |-> r.client ]

\* NewWithAppInsightsConfig(conf), which has no name parameter either.
NewWithAppInsightsConfig(conf, clientName) ==
    LET r == NewWithAppInsightsConfigResult(conf)
    IN  /\ Constructed(r)
        /\ ctor' = [ fn |-> "NewWithAppInsightsConfig", name |-> clientName,
                     iKey |-> IF conf = <<>> THEN "" ELSE conf[1].InstrumentationKey,
                     conf |-> conf, outcome |-> r.outcome, err |-> r.err,
                     made |-> r.made, client |-> r.client ]

----------------------------------------------------------------------------
(* Setters *)

\* Levels(): return hook.levels
Levels == levels

\* A mutant of SetLevels: a nil slice is not stored.
SetLevelsSkipNil(ls) ==
    /\ caller = "idle"
    /\ levels' = IF ls = <<>> THEN levels ELSE ls
    /\ hist' = [hist EXCEPT !.setLevels = <<ls>>]
    /\ UNCHANGED <<async, ignoreFields, filters, tracked, pending, caller,
                   nfires, units, last, returns, ctor>>

\* SetLevels
SetLevels(ls) ==
    /\ caller = "idle"
    /\ levels' = ls
    /\ hist' = [hist EXCEPT !.setLevels = <<ls>>]
    /\ UNCHANGED <<async, ignoreFields, filters, tracked, pending, caller,
                   nfires, units, last, returns, ctor>>

\* SetAsync
SetAsync(b) ==
    /\ caller = "idle"
    /\ async' = b
    /\ UNCHANGED <<levels, ignoreFields, filters, tracked, pending, caller,
                   nfires, units, last, returns, ctor, hist>>

\* The rules as a goroutine's lookups find them.
Rules(ign, flt) == [ign |-> ign, flt |-> flt]

\* The goroutines whose buildTrace is in its loop over the fields, reading
\* hook.ignoreFields and hook.filters.
Reading == {id \in DOMAIN units : units[id].gpc = "loop"}

\* A write of the rule maps by the caller, with no lock taken.  A goroutine
\* that is in its loop is reading the maps while they are written, and can
\* find the new rules from now on.
Written(ign, flt) ==
    [id \in DOMAIN units |->
        IF id \in Reading
        THEN [units[id] EXCEPT
                !.seen  = IF @[Len(@)] = Rules(ign, flt) THEN @
                          ELSE Append(@, Rules(ign, flt)),
                !.raced = TRUE]
        ELSE units[id]]

\* A map write concurrent with a map read is a data race: the write may go
\* through, or the runtime stops the process ("concurrent map read and map
\* write").
AfterWrite == IF Reading = {} THEN {"idle"} ELSE {"idle", "crashed"}

\* A mutant of AddIgnore: the set is replaced by the one name.
AddIgnoreReplace(name) ==
    /\ caller = "idle"
    /\ ignoreFields' = {name}
    /\ hist' = [hist EXCEPT !.ignored = @ \cup {name}]
    /\ units' = Written({name}, filters)
    /\ caller' \in AfterWrite
    /\ UNCHANGED <<async, levels, filters, tracked, pending,
                   nfires, last, returns, ctor>>

\* A mutant of AddIgnore: the write waits until no goroutine reads the rules.
AddIgnoreLocked(name) ==
    /\ caller = "idle"
    /\ Reading = {}
    /\ ignoreFields' = ignoreFields \cup {name}
    /\ hist' = [hist EXCEPT !.ignored = @ \cup {name}]
    /\ units' = Written(ignoreFields \cup {name}, filters)
    /\ caller' \in AfterWrite
    /\ UNCHANGED <<async, levels, filters, tracked, pending,
                   nfires, last, returns, ctor>>

\* AddIgnore: hook.ignoreFields[name] = struct{}{}
AddIgnore(name) ==
    /\ caller = "idle"
    /\ ignoreFields' = ignoreFields \cup {name}
    /\ hist' = [hist EXCEPT !.ignored = @ \cup {name}]
    /\ units' = Written(ignoreFields \cup {name}, filters)
    /\ caller' \in AfterWrite
    /\ UNCHANGED <<async, levels, filters, tracked, pending,
                   nfires, last, returns, ctor>>

\* AddFilter: hook.filters[name] = fn
AddFilter(name, fn) ==
    /\ caller = "idle"
    /\ filters' = [k \in DOMAIN filters \cup {name} |->
                      IF k = name THEN fn ELSE filters[k]]
    /\ hist' = [hist EXCEPT !.filtered = @ \cup {name}]
    /\ units' = Written(ignoreFields, filters')
    /\ caller' \in AfterWrite
    /\ UNCHANGED <<async, levels, ignoreFields, tracked, pending,
                   nfires, last, returns, ctor>>

----------------------------------------------------------------------------
(* Fire *)

\* What a run of buildTrace leaves in last: the rules rd it read, the rules
\* r0 that were in force when its loop began, and whether the rules were
\* written while it read them.
CallRecord(id, mode, e, b, rd, r0, raced) ==
    [ id |-> id, mode |-> mode, outcome |-> b.outcome, entry0 |-> e,
      entry |-> b.entry, ign |-> rd.ign, flt |-> rd.flt,
      trace |-> b.trace, applied |-> b.applied, formatted |-> b.formatted,
      ign0 |-> r0.ign, flt0 |-> r0.flt, raced |-> raced ]

\* A mutant of Track: the event is put in front of the ones received before.
TrackFirst(log, ev) == <<ev>> \o log

\* A mutant of Track: the event is handed over twice.
TrackTwice(log, ev) == log \o <<ev, ev>>

\* hook.client.Track(trace): the client receives the event.
Track(log, ev) == Append(log, ev)

\* A mutant of fireResult: the build error is dropped.
fireResultNil(b) == NoError

\* fire's result for a buildTrace result b that did not panic (lines 137-142).
fireResult(b) == IF b.outcome = "err" THEN BuildError ELSE NoError

\* Fire with hook.async false: return hook.fire(entry).  The whole call runs
\* on the caller.  Track returns nothing; sendOK is what later becomes of the
\* event inside the client.  A panic of buildTrace unwinds the caller.
FireSync ==
    /\ caller = "idle"
    /\ pending # <<>>
    /\ ~async
    /\ \E traceOK \in BOOLEAN, sendOK \in BOOLEAN :
        LET e  == pending[1]
            id == nfires + 1
            b  == buildTrace(e, ignoreFields, filters, traceOK)
        IN  /\ nfires' = id
            /\ pending' = <<>>
            /\ last' = CallRecord(id, "sync", e, b, Rules(ignoreFields, filters),
                                   Rules(ignoreFields, filters), FALSE)
            /\ tracked' = IF b.outcome = "ok"
                          THEN Track(tracked, [id |-> id, sendOK |-> sendOK])
                          ELSE tracked
            /\ caller' = IF b.outcome = "panic" THEN "panicked" ELSE "idle"
            /\ returns' = IF b.outcome = "panic"
                          THEN returns
                          ELSE returns @@ (id :> [mode |-> "sync", err |-> fireResult(b)])
    /\ UNCHANGED <<async, levels, ignoreFields, filters, units, ctor, hist>>

\* Fire with hook.async true: the go statement.  err is Fire's named result,
\* which the goroutine's deferred function writes; the caller reads it next.
FireAsync ==
    /\ caller = "idle"
    /\ pending # <<>>
    /\ async
    /\ nfires' = nfires + 1
    /\ units' = units @@ ((nfires + 1) :>
                    [ entry |-> pending[1], gpc |-> "run", err |-> NoError,
                      trace |-> NoTrace, seen |-> <<>>, raced |-> FALSE ])
    /\ pending' = <<>>
    /\ caller' = "spawned"
    /\ UNCHANGED <<async, levels, ignoreFields, filters, tracked, last, returns, ctor, hist>>

\* Lines 130-133 of Fire, on the caller: return err if it is set, else nil.
FireReturn ==
    /\ caller = "spawned"
    /\ returns' = returns @@ (nfires :> [mode |-> "async", err |-> units[nfires].err])
    /\ caller' = "idle"
    /\ UNCHANGED <<async, levels, ignoreFields, filters, tracked, pending,
                   nfires, units, last>>
    /\ UNCHANGED <<ctor, hist>>

\* A goroutine that has ended: only Fire's err variable is left of it.
DoneUnit(err) ==
    [ entry |-> NoEntry, gpc |-> "done", err |-> err, trace |-> NoTrace,
      seen |-> <<>>, raced |-> FALSE ]

\* The process has ended: an unrecovered panic on the caller, or the runtime
\* stopped it.
Dead == {"panicked", "crashed"}

\* The goroutine starts: hook.fire(entry) calls buildTrace, which reaches its
\* loop over the fields.  From here on it reads the hook's rules.
GoEnter(id) ==
    /\ caller \notin Dead
    /\ id \in DOMAIN units
    /\ units[id].gpc = "run"
    /\ units' = [units EXCEPT ![id].gpc = "loop",
                              ![id].seen = <<Rules(ignoreFields, filters)>>]
    /\ UNCHANGED <<async, levels, ignoreFields, filters, tracked, pending,
                   caller, nfires, last, returns, ctor, hist>>

\* The goroutine finishes buildTrace.  Its lookups found the rules as they
\* were at some moment of the loop: hook.ignoreFields[k] first, hook.filters[k]
\* after it.  fire's error result is discarded.
GoBuild(id) ==
    /\ caller \notin Dead
    /\ id \in DOMAIN units
    /\ units[id].gpc = "loop"
    /\ \E traceOK \in BOOLEAN :
       \E i \in 1..Len(units[id].seen) :
       \E f \in i..Len(units[id].seen) :
        LET e  == units[id].entry
            rd == Rules(units[id].seen[i].ign, units[id].seen[f].flt)
            b  == buildTrace(e, rd.ign, rd.flt, traceOK)
        IN  /\ last' = CallRecord(id, "async", e, b, rd, units[id].seen[1],
                                   units[id].raced)
            /\ units' = [units EXCEPT ![id] =
                  CASE b.outcome = "ok" ->
                         [ entry |-> b.entry, gpc |-> "built", err |-> @.err,
                           trace |-> b.trace, seen |-> <<>>,
                           raced |-> @.raced ]
                    [] b.outcome = "panic" ->
                         [ entry |-> b.entry, gpc |-> "panicking", err |-> @.err,
                           trace |-> NoTrace, seen |-> <<>>,
                           raced |-> @.raced ]
                    [] OTHER -> DoneUnit(@.err)]
    /\ UNCHANGED <<async, levels, ignoreFields, filters, tracked, pending,
                   caller, nfires, returns, ctor, hist>>

\* The goroutine calls hook.client.Track(trace).
GoTrack(id) ==
    /\ caller \notin Dead
    /\ id \in DOMAIN units
    /\ units[id].gpc = "built"
    /\ \E sendOK \in BOOLEAN :
        tracked' = Track(tracked, [id |-> id, sendOK |-> sendOK])
    /\ units' = [units EXCEPT ![id] = DoneUnit(units[id].err)]
    /\ UNCHANGED <<async, levels, ignoreFields, filters, pending, caller,
                   nfires, last, returns, ctor, hist>>

\* A mutant of GoRecover: after a recovered panic the hook turns synchronous.
GoRecoverSync(id) ==
    /\ caller \notin Dead
    /\ id \in DOMAIN units
    /\ units[id].gpc = "panicking"
    /\ units' = [units EXCEPT ![id] = DoneUnit(RecoveredError)]
    /\ async' = FALSE
    /\ UNCHANGED <<levels, ignoreFields, filters, tracked, pending,
                   caller, nfires, last, returns, ctor, hist>>

\* The deferred function recovers the panic and assigns Fire's err.
GoRecover(id) ==
    /\ caller \notin Dead
    /\ id \in DOMAIN units
    /\ units[id].gpc = "panicking"
    /\ units' = [units EXCEPT ![id] = DoneUnit(RecoveredError)]
    /\ UNCHANGED <<async, levels, ignoreFields, filters, tracked, pending,
                   caller, nfires, last, returns, ctor, hist>>

----------------------------------------------------------------------------
(* The dispatch specification: a caller that configures the hook and logs, *)
(* and the goroutines of its asynchronous fires                            *)

DispatchEntries ==
    { MkEntry(ErrorLevel, "entry_message", "price" :> IntV(105)),
      MkEntry(DebugLevel, "second", ("message" :> StrV("field_message")) @@ ("price" :> Nil)) }

\* The caller logs the two entries in turn: the n-th Fire gets the first entry
\* for odd n and the second for even n.
EntryOf(n) ==
    IF n % 2 = 1
    THEN MkEntry(ErrorLevel, "entry_message", "price" :> IntV(105))
    ELSE MkEntry(DebugLevel, "second", ("message" :> StrV("field_message")) @@ ("price" :> Nil))

DispatchRuleNames == {"price"}
DispatchFilterFns == {"nilfn"}
LevelChoices == {<<>>}

\* The logger creates an entry and is about to call Fire with it.
Log(e) ==
    /\ caller = "idle"
    /\ pending = <<>>
    /\ nfires < MaxFires
    /\ e = EntryOf(nfires + 1)
    /\ pending' = <<e>>
    /\ UNCHANGED <<async, levels, ignoreFields, filters, tracked, caller,
                   nfires, units, last, returns, ctor, hist>>

Init ==
    /\ InitHook
    /\ InitRest
    /\ pending = <<>>

Next ==
    \/ \E ls \in LevelChoices : SetLevels(ls)
    \/ \E b \in BOOLEAN : SetAsync(b)
    \/ \E name \in DispatchRuleNames : AddIgnore(name)
    \/ \E name \in DispatchRuleNames, fn \in DispatchFilterFns : AddFilter(name, fn)
    \/ \E e \in DispatchEntries : Log(e)
    \/ FireSync
    \/ FireAsync
    \/ FireReturn
    \/ \E id \in 1..MaxFires : GoEnter(id)
    \/ \E id \in 1..MaxFires : GoBuild(id)
    \/ \E id \in 1..MaxFires : GoTrack(id)
    \/ \E id \in 1..MaxFires : GoRecover(id)

Spec == Init /\ [][Next]_vars

----------------------------------------------------------------------------
(* The payload specification: one entry, any rules, a synchronous Fire *)

InitBuild ==
    /\ InitHook
    /\ InitRest
    /\ pending \in {<<e>> : e \in BuildEntries}

\* The hook is configured before the entry is logged.
NextBuild ==
    \/ pending # <<>> /\ \E name \in RuleNames : AddIgnore(name)
    \/ pending # <<>> /\ \E name \in RuleNames, fn \in FilterFns : AddFilter(name, fn)
    \/ FireSync

SpecBuild == InitBuild /\ [][NextBuild]_vars

----------------------------------------------------------------------------
(* The construction specification *)

ClientNames == {"", "my_client"}
Keys == {"", "instrumentation_key", "NotEmpty"}

Confs ==
    [ InstrumentationKey : Keys,
      EndpointUrl        : {"", "http://127.0.0.1:8080"},
      MaxBatchSize       : {0, 1, 10},
      MaxBatchInterval   : {0, 5, 10} ]

InitNew ==
    /\ InitHook
    /\ InitRest
    /\ pending = <<>>

NextNew ==
    \/ \E iKey \in Keys, clientName \in ClientNames : New(iKey, clientName)
    \/ \E conf \in {<<>>} \cup {<<c>> : c \in Confs}, clientName \in ClientNames :
          NewWithAppInsightsConfig(conf, clientName)

SpecNew == InitNew /\ [][NextNew]_vars

----------------------------------------------------------------------------
(* The configuration specification: a caller that only uses the setters, on *)
(* a hook made by New or on one written as a literal without levels         *)

\* The level lists of TestSetLevels.
ConfigLevels ==
    { <<>>, <<WarnLevel>>, <<ErrorLevel>>, <<WarnLevel, DebugLevel>>,
      <<WarnLevel, DebugLevel, ErrorLevel>> }

ConfigFilterFns == {"nilfn", "redact"}

InitConfig ==
    /\ async = FALSE
    /\ levels \in {defaultLevels, <<>>}
    /\ ignoreFields = {}
    /\ filters = [k \in {} |-> ""]
    /\ InitRest
    /\ pending = <<>>

NextConfig ==
    \/ \E ls \in ConfigLevels : SetLevels(ls)
    \/ \E b \in BOOLEAN : SetAsync(b)
    \/ \E name \in RuleNames : AddIgnore(name)
    \/ \E name \in RuleNames, fn \in ConfigFilterFns : AddFilter(name, fn)

SpecConfig == InitConfig /\ [][NextConfig]_vars

----------------------------------------------------------------------------
(* Properties of the payload (SpecBuild) *)

\* The keys buildTrace sets itself after the loop (lines 168-169).
Reserved == {"source_level", "source_timestamp"}

Built == last.outcome = "ok"
Payload == last.trace.Properties
NoMessageRule == "message" \notin last.ign /\ "message" \notin DOMAIN last.flt
NoRules == last.ign = {} /\ DOMAIN last.flt = {}

\* C1: an entry without a "message" field, no ignore or filter rule for
\* "message": the payload has "message", equal to the entry's message string.
C1_MessageFromEntry ==
    (Built /\ "message" \notin DOMAIN last.entry0.Data /\ NoMessageRule)
        => /\ "message" \in DOMAIN Payload
           /\ Payload["message"] = last.entry0.Message

C1_Witness ==
    /\ Built
    /\ "message" \notin DOMAIN last.entry0.Data
    /\ DOMAIN last.entry0.Data # {}
    /\ NoMessageRule
    /\ last.ign # {}

\* C2 as stated: whatever rules AddIgnore and AddFilter registered, also for
\* "message", the payload produced always contains the "message" key.
C2_Original == Built => "message" \in DOMAIN Payload

\* C2, amended: the payload contains "message" exactly when "message" is not in
\* the ignore set; a filter registered for "message" does not remove it.
C2_MessageUnlessIgnored ==
    Built => ("message" \in DOMAIN Payload <=> "message" \notin last.ign)

C2_Witness ==
    /\ Built
    /\ "message" \in DOMAIN last.flt
    /\ "message" \notin last.ign
    /\ "message" \in DOMAIN Payload

\* C3 as stated: every field name in both the entry's fields and the ignore set
\* has no property in the payload, and its filter, if any, is not applied.
C3_Original ==
    \A k \in DOMAIN last.entry.Data \cap last.ign :
        /\ k \notin last.applied
        /\ Built => k \notin DOMAIN Payload

\* C3, amended: that holds for every field name other than "source_level" and
\* "source_timestamp"; under those two the payload always carries the entry's
\* level and time, whatever the entry's fields and the rules.
C3_IgnoredAbsent ==
    /\ \A k \in (DOMAIN last.entry.Data \cap last.ign) \ Reserved :
        /\ k \notin last.applied
        /\ Built => k \notin DOMAIN Payload
    /\ Built => /\ Reserved \subseteq DOMAIN Payload
                /\ Payload["source_level"] = LevelString(last.entry0.Level)
                /\ Payload["source_timestamp"] = TimeString(last.entry0.Time)

C3_Witness ==
    /\ Built
    /\ \E k \in (DOMAIN last.entry0.Data \cap last.ign \cap DOMAIN last.flt) \ Reserved :
          k \notin DOMAIN Payload

\* C4 as stated: for every non-ignored field with a registered filter the
\* payload value is the text of the filter's result on the raw value, nothing
\* else applied, also when the filter returns nil.
C4_Original ==
    Built =>
        \A k \in (DOMAIN last.entry.Data \ last.ign) \cap DOMAIN last.flt :
            /\ Payload[k] = SprintfV(ApplyFilter(last.flt[k], last.entry.Data[k]))
            /\ last.flt[k] = "null" => Payload[k] = "<nil>"

\* C4, amended: that holds for every such field other than "source_level" and
\* "source_timestamp", whose payload values are the entry's level and time.
C4_FilterResultText ==
    Built =>
        \A k \in ((DOMAIN last.entry.Data \ last.ign) \cap DOMAIN last.flt) \ Reserved :
            /\ Payload[k] = SprintfV(ApplyFilter(last.flt[k], last.entry.Data[k]))
            /\ last.flt[k] = "null" => Payload[k] = "<nil>"

C4_Witness ==
    /\ Built
    /\ \E k \in (DOMAIN last.entry0.Data \ last.ign) \cap DOMAIN last.flt :
          /\ k \notin Reserved
          /\ last.flt[k] = "null"
          /\ last.entry0.Data[k] # Nil

\* C5: formatData picks one rule per value, in the order Marshaler, error,
\* Stringer, pass-through, for every combination of capabilities.
C5_FormatPriority ==
    \A k \in DOMAIN last.formatted :
        LET v == last.entry.Data[k]
            r == last.formatted[k]
        IN  /\ "Marshaler" \in v.caps => r = v
            /\ ("Marshaler" \notin v.caps /\ "error" \in v.caps)
                  => r = StrV("this is a test error")
            /\ (v.caps \cap {"Marshaler", "error"} = {} /\ "Stringer" \in v.caps)
                  => r = StrV("myStringer!")
            /\ v.caps \cap {"Marshaler", "error", "Stringer"} = {} => r = v

C5_Witness ==
    /\ Built
    /\ \E k \in DOMAIN last.formatted :
          /\ last.entry.Data[k].caps = {"Marshaler", "error", "Stringer"}
          /\ last.formatted[k] = last.entry.Data[k]

\* C9 as stated: with no rules the payload's keys are exactly the entry's
\* fields plus "message".
C9_Original ==
    (Built /\ NoRules) => DOMAIN Payload = DOMAIN last.entry0.Data \cup {"message"}

\* C9, amended: with no rules the payload's keys are exactly the entry's fields
\* plus "message", "source_level" and "source_timestamp"; each field's value is
\* its textual form, and the two added keys hold the level name and the time.
\* {name: "apple", price: 105, color: "red"} with message "entry_message" at
\* level error gives price "105" and source_level "error".
C9_ExactPayload ==
    (Built /\ NoRules) =>
        /\ DOMAIN Payload = DOMAIN last.entry0.Data \cup {"message"} \cup Reserved
        /\ \A k \in DOMAIN last.entry.Data \ Reserved :
              Payload[k] = SprintfV(formatData(last.entry.Data[k]))
        /\ Payload["source_level"] = LevelString(last.entry0.Level)
        /\ Payload["source_timestamp"] = TimeString(last.entry0.Time)
        /\ (last.entry0 = MkEntry(ErrorLevel, "entry_message", AppleData)) =>
              Payload = [ message |-> "entry_message", name |-> "apple",
                          price |-> "105", color |-> "red",
                          source_level |-> "error",
                          source_timestamp |-> "2018-01-25 12:13:42 +0000 UTC" ]

C9_Witness ==
    /\ Built
    /\ NoRules
    /\ last.entry0 = MkEntry(ErrorLevel, "entry_message", AppleData)
    /\ Payload["price"] = "105"

\* C10 as stated: when the entry has a "message" field, the entry's fields are
\* left unchanged and the payload's "message" is the field value's text.
C10_Original ==
    (Built /\ "message" \in DOMAIN last.entry0.Data) =>
        /\ last.entry = last.entry0
        /\ "message" \in DOMAIN Payload
        /\ Payload["message"] = SprintfV(formatData(last.entry0.Data["message"]))

\* C10, amended: the entry's fields are left unchanged; with no ignore or filter
\* rule for "message" the payload's "message" is the field value's text (the
\* field "field_message" gives "field_message", not the entry's message).
C10_FieldMessageKept ==
    (last.id > 0 /\ "message" \in DOMAIN last.entry0.Data) =>
        /\ last.entry = last.entry0
        /\ (Built /\ NoMessageRule) =>
              /\ "message" \in DOMAIN Payload
              /\ Payload["message"] = SprintfV(formatData(last.entry0.Data["message"]))
              /\ last.entry0.Data["message"] = StrV("field_message")
                    => Payload["message"] = "field_message"

C10_Witness ==
    /\ Built
    /\ NoMessageRule
    /\ "message" \in DOMAIN last.entry0.Data
    /\ last.entry0.Data["message"] = StrV("field_message")
    /\ Payload["message"] # last.entry0.Message

----------------------------------------------------------------------------
(* Properties of Fire's result (Spec) *)

\* The positions of the tracked log that hold the event of call id.
TrackedAt(id) == {i \in 1..Len(tracked) : tracked[i].id = id}

SyncReturned == {id \in DOMAIN returns : returns[id].mode = "sync"}
AsyncReturned == {id \in DOMAIN returns : returns[id].mode = "async"}

\* C6 as stated: a synchronous Fire returns success when the collaborator
\* accepts the event, and an error whenever the build or the send fails.
C6_Original ==
    \A id \in SyncReturned :
        returns[id].err = NoError <=> \E i \in TrackedAt(id) : tracked[i].sendOK

\* C6, amended: a synchronous Fire returns an error exactly when the build step
\* yields no trace, and then hands nothing to the collaborator; otherwise it
\* hands the event to Track exactly once and returns success, whatever becomes
\* of the send (Track reports no outcome).
C6_SyncResult ==
    \A id \in SyncReturned :
        /\ returns[id].err \in {NoError, BuildError}
        /\ returns[id].err = NoError <=> Cardinality(TrackedAt(id)) = 1
        /\ returns[id].err = BuildError <=> TrackedAt(id) = {}
        /\ last.id = id => (returns[id].err = BuildError <=> last.outcome = "err")

C6_Witness ==
    \E id \in SyncReturned :
        /\ returns[id].err = NoError
        /\ \E i \in TrackedAt(id) : ~tracked[i].sendOK

\* C7: in asynchronous mode Fire always returns nil to the caller, in every
\* interleaving with the goroutine, also when the goroutine panics and recovers.
C7_AsyncReturnsNil ==
    \A id \in AsyncReturned : returns[id].err = NoError

----------------------------------------------------------------------------
(* Properties of construction (SpecNew) *)

----------------------------------------------------------------------------
(* Properties of the field texts and the severity (SpecBuild) *)

\* The fields that reach formatData: neither ignored nor filtered.
Formatted == DOMAIN last.formatted \ Reserved

\* C11 as stated: for a field value that is both a json.Marshaler and a
\* fmt.Stringer the payload string differs from the value's String() output
\* whenever its MarshalJSON and String() texts differ.
C11_Original ==
    Built =>
        \A k \in Formatted :
            LET v == last.entry.Data[k]
            IN  ({"Marshaler", "Stringer"} \subseteq v.caps /\ JSONText(v) # StringText(v))
                    => Payload[k] # StringText(v)

\* C11, amended: formatData returns such a value unchanged, and the payload
\* string is the %v text of the value itself, never its MarshalJSON text: the
\* String() output "myStringer!", unless the value is also an error or a
\* fmt.Formatter, whose Error() or Format text %v prefers.
C11_MarshalerTextIsSprintf ==
    Built =>
        \A k \in Formatted :
            LET v == last.entry.Data[k]
            IN  {"Marshaler", "Stringer"} \subseteq v.caps =>
                    /\ last.formatted[k] = v
                    /\ Payload[k] # "{\"json\":true}"
                    /\ Payload[k] = IF "Formatter" \in v.caps THEN "formatted!"
                                    ELSE IF "error" \in v.caps THEN "this is a test error"
                                    ELSE "myStringer!"

C11_Witness ==
    /\ Built
    /\ \E k \in Formatted :
          /\ last.entry.Data[k].caps = {"Marshaler", "Stringer"}
          /\ Payload[k] = "myStringer!"

\* C12 as stated: every error-valued field without a filter is normalized by
\* formatData to its Error() string, also when the value is a json.Marshaler.
C12_Original ==
    \A k \in DOMAIN last.formatted :
        "error" \in last.entry.Data[k].caps
            => last.formatted[k] = StrV("this is a test error")

\* C12, amended: an error-valued field without a filter is normalized to its
\* Error() string when the value is not a json.Marshaler; an error that is also
\* a json.Marshaler is returned unchanged, and its payload text is its Error()
\* string unless the value is a fmt.Formatter, whose Format text is emitted.
C12_ErrorText ==
    \A k \in DOMAIN last.formatted :
        LET v == last.entry.Data[k]
        IN  "error" \in v.caps =>
              IF "Marshaler" \in v.caps
              THEN /\ last.formatted[k] = v
                   /\ (Built /\ k \notin Reserved) =>
                         Payload[k] = IF "Formatter" \in v.caps THEN "formatted!"
                                      ELSE "this is a test error"
              ELSE /\ last.formatted[k] = StrV("this is a test error")
                   /\ (Built /\ k \notin Reserved) => Payload[k] = "this is a test error"

C12_Witness ==
    /\ Built
    /\ \E k \in Formatted :
          /\ last.entry.Data[k].caps = {"Marshaler", "error"}
          /\ last.formatted[k] = last.entry.Data[k]
          /\ Payload[k] = "this is a test error"

\* C13: the severity of the event is Critical for Panic and Fatal, Error for
\* Error, Warning for Warn, Information for Info; for Debug, which the table
\* lacks, the lookup yields the zero severity and the event is built and handed
\* to the client all the same.
C13_SeverityTable ==
    Built =>
        LET l == last.entry0.Level
        IN  /\ last.trace.Severity =
                  CASE l = PanicLevel -> Critical
                    [] l = FatalLevel -> Critical
                    [] l = ErrorLevel -> Error
                    [] l = WarnLevel  -> Warning
                    [] l = InfoLevel  -> Information
                    [] OTHER          -> 0
            /\ Cardinality({i \in 1..Len(tracked) : tracked[i].id = last.id}) = 1

C13_Witness ==
    /\ Built
    /\ last.entry0.Level = DebugLevel
    /\ last.trace.Severity = 0
    /\ \E i \in 1..Len(tracked) : tracked[i].id = last.id
    /\ Payload["source_level"] = "debug"

----------------------------------------------------------------------------
(* Properties of the setters (SpecConfig) *)

\* C14: Levels() returns exactly the list most recently passed to SetLevels,
\* in the same order, also when that list is nil; before any SetLevels call it
\* returns the list the hook was created with (nil for a hook made without).
C14_LevelsLastSet ==
    Levels = IF hist.setLevels = <<>> THEN hist.created ELSE hist.setLevels[1]

C14_Witness ==
    /\ hist.created = defaultLevels
    /\ hist.setLevels = << <<>> >>
    /\ Levels = <<>>
    /\ ignoreFields # {}

\* C15: every name ever passed to AddIgnore is in the ignore set and every name
\* ever passed to AddFilter is a key of the filter map; no step removes a name
\* from either, and a step that adds a new name grows that set by exactly one.
C15_RulesOnlyGrow ==
    /\ [](hist.ignored \subseteq ignoreFields /\ hist.filtered \subseteq DOMAIN filters)
    /\ [][ /\ ignoreFields \subseteq ignoreFields'
           /\ DOMAIN filters \subseteq DOMAIN filters'
           /\ \A n \in hist'.ignored \ ignoreFields :
                 /\ n \in ignoreFields'
                 /\ Cardinality(ignoreFields') = Cardinality(ignoreFields) + 1
           /\ \A n \in hist'.filtered \ DOMAIN filters :
                 /\ n \in DOMAIN filters'
                 /\ Cardinality(DOMAIN filters') = Cardinality(DOMAIN filters) + 1
         ]_vars

C15_Witness ==
    /\ hist.ignored = RuleNames
    /\ ignoreFields = RuleNames
    /\ hist.filtered = {"price", "message"}
    /\ DOMAIN filters = {"price", "message"}
    /\ filters["price"] = "nilfn"

----------------------------------------------------------------------------
(* Properties of delivery and of the hook's state under Fire (Spec) *)

\* The asynchronous calls.
AsyncCalls == DOMAIN units

\* What changes when a step of Fire or of one of its goroutines is taken.
FireView ==
    << nfires, last, tracked, returns,
       [id \in DOMAIN units |-> <<units[id].gpc, units[id].err>>] >>

\* C16: in both modes and in every interleaving, Track is invoked at most once
\* for the entry of each Fire call, one event a time, only after that entry's
\* buildTrace returned a trace, and never when it failed or panicked.
C16_AtMostOnce ==
    /\ [](\A id \in 1..nfires :
             /\ Cardinality(TrackedAt(id)) <= 1
             /\ (last.id = id /\ last.outcome # "ok") => TrackedAt(id) = {})
    /\ [][ tracked' # tracked =>
             /\ Len(tracked') = Len(tracked) + 1
             /\ SubSeq(tracked', 1, Len(tracked)) = tracked
             /\ LET id == tracked'[Len(tracked')].id
                IN  \/ /\ last'.id = id
                       /\ last'.mode = "sync"
                       /\ last'.outcome = "ok"
                       /\ nfires' = id
                       /\ nfires = id - 1
                    \/ /\ id \in AsyncCalls
                       /\ units[id].gpc = "built"
                       /\ units'[id].gpc = "done"
         ]_vars

C16_Witness ==
    /\ last.mode = "async"
    /\ last.outcome = "panic"
    /\ last.id \in AsyncReturned
    /\ units[last.id].gpc = "done"
    /\ TrackedAt(last.id) = {}
    /\ \E id \in DOMAIN returns : Cardinality(TrackedAt(id)) = 1

\* C17: no step of Fire or of its goroutine changes the hook's async flag,
\* levels, ignore set or filter map, in either mode; the entry handed to Fire
\* comes back with its level, message, time and every field unchanged, and with
\* the "message" field added, holding the entry's message, when it was absent.
C17_FireLeavesHook ==
    /\ [](last.id > 0 =>
             /\ last.entry.Level = last.entry0.Level
             /\ last.entry.Message = last.entry0.Message
             /\ last.entry.Time = last.entry0.Time
             /\ DOMAIN last.entry.Data = DOMAIN last.entry0.Data \cup {"message"}
             /\ \A k \in DOMAIN last.entry0.Data :
                   last.entry.Data[k] = last.entry0.Data[k]
             /\ "message" \notin DOMAIN last.entry0.Data =>
                   last.entry.Data["message"] = StrV(last.entry0.Message))
    /\ [][FireView' # FireView => UNCHANGED hookVars]_vars

C17_Witness ==
    /\ last.mode = "async"
    /\ "message" \notin DOMAIN last.entry0.Data
    /\ last.entry.Data["message"] = StrV("entry_message")
    /\ last.entry.Data["price"] = IntV(105)
    /\ async
    /\ levels = <<>>
    /\ ignoreFields = {"price"}
    /\ SyncReturned # {}

\* C18: the client receives the event of a later Fire call before the event of
\* an earlier one only if the earlier call was asynchronous: the events of
\* synchronous calls arrive in the order of the calls.  (The witness is the
\* interleaving in which two asynchronous fires arrive second before first.)
C18_SyncInOrder ==
    \A i, j \in 1..Len(tracked) :
        (i < j /\ tracked[i].id > tracked[j].id) => tracked[j].id \in AsyncCalls

C18_Witness ==
    /\ Len(tracked) = 2
    /\ tracked[1].id = 2
    /\ tracked[2].id = 1
    /\ {1, 2} \subseteq AsyncCalls
    /\ {1, 2} \subseteq DOMAIN returns
    /\ returns[1].err = NoError
    /\ returns[2].err = NoError

\* C19: the setters take no lock: while a goroutine of an earlier Fire is in
\* buildTrace's loop and reads the rules, the caller, to whom Fire has
\* returned, can call AddIgnore, AddFilter or SetLevels; the rules a build
\* finds lie between those in force when its loop began and the current ones,
\* and they are those of the loop's beginning if none was written meanwhile.
\* (The witness has both outcomes of one such write: a rule applied to one
\* earlier entry and not applied to another.)
C19_NoLock ==
    /\ (Reading # {} /\ caller = "idle") =>
          /\ ENABLED AddIgnore("price")
          /\ ENABLED AddFilter("price", "nilfn")
          /\ ENABLED SetLevels(<<>>)
    /\ last.id > 0 =>
          /\ last.ign0 \subseteq last.ign
          /\ last.ign \subseteq ignoreFields
          /\ DOMAIN last.flt0 \subseteq DOMAIN last.flt
          /\ DOMAIN last.flt \subseteq DOMAIN filters
          /\ ~last.raced => (last.ign = last.ign0 /\ last.flt = last.flt0)
          /\ last.mode = "sync" => ~last.raced

C19_Witness ==
    /\ ignoreFields = {"price"}
    /\ 1 \in AsyncReturned
    /\ units[1].gpc = "built"
    /\ units[1].raced
    /\ "price" \in DOMAIN units[1].trace.Properties
    /\ last.id = 2
    /\ last.mode = "async"
    /\ last.raced
    /\ last.ign0 = {}
    /\ last.ign = {"price"}
    /\ Built
    /\ "price" \notin DOMAIN Payload

====
